---------------------------- MODULE Spec2Model ----------------------------
(***************************************************************************)
(* A model of tcphydra's core/proxy.py: the Proxy session registry and its *)
(* event loop, the connector threads started by start_connection, and the  *)
(* line-buffering socket container (flush, read and its telnet stripper,   *)
(* add_filters).                                                           *)
(*                                                                         *)
(* Text is modelled as a sequence of fragments (strings).  A line read     *)
(* from a socket is a sequence of one-character fragments ending in "\n";  *)
(* a reply built by tell_ok / tell_err is the sequence of the fragments    *)
(* that the code concatenates.                                             *)
(*                                                                         *)
(* The handlers of the event loop are operators on a record H holding the  *)
(* objects of the process (the Proxy's dictionaries and lists, the fields  *)
(* of every RemoteServer and LocalClient); an action packs the variables   *)
(* into H, applies the handler and assigns the fields of the result.       *)
(***************************************************************************)
EXTENDS Integers, Sequences, FiniteSets, TLC

(***************************************************************************)
(* Bounds of the model.                                                    *)
(***************************************************************************)
MaxClients == 2      \* accepted connections open at once
MaxRemotes == 1      \* sockets to remote servers open at once
MaxBatch == 2        \* lines returned by one read() of a server
MaxTasks == 2        \* connector threads of one server alive at once
MaxBytes == 5        \* bytes written to one endpoint in one behaviour
MaxWrite == 2        \* bytes of one write call
MaxRecvBuffer == 3   \* bytes one read() has to strip (left over and received)
MaxQueued == 2       \* bytes read() puts into the send buffer in one behaviour
MaxSpecs == 2        \* entries of one filter specification list
MaxFilters == 4      \* filters attached to one connection
MaxRaised == 1       \* connector threads in an except clause at a time

(***************************************************************************)
(* Program constants (proxy.py:36-40).                                     *)
(***************************************************************************)
COMMAND_PREFIX == ","
MESSAGE_PREFIX_OK == "%% "
MESSAGE_PREFIX_ERR == "!! "
LINE_SEPARATOR == 10

\* The telnet codes of read() (proxy.py:298-302).
IAC == 255
DONT == 254
DO == 253
WONT == 252
WILL == 251

ClientStreams == 1 .. MaxClients                             \* sockets accept() returns
RemoteStreams == (MaxClients + 1) .. (MaxClients + MaxRemotes)  \* sockets to servers
Streams == ClientStreams \cup RemoteStreams
None == 0            \* the socket field of an endpoint with no socket
NoServer == ""       \* LocalClient.subscribedTo = None

(***************************************************************************)
(* Configuration (cfg['servers'], 'filter_servers', 'filter_clients'):     *)
(* two servers, "B" over SSL; the filter kinds stand for plug-in filters:  *)
(* "broken" raises, "mute" returns None for a line starting with "#",      *)
(* "tag" returns the line with ">" put in front.                           *)
(***************************************************************************)
Servers == {"A", "B"}
use_SSL == [v \in Servers |-> v = "B"]
ServerFilters == [v \in Servers |-> IF v = "A" THEN <<"broken", "mute", "tag">> ELSE <<>>]
ClientFilters == <<"mute", "tag">>
PASSWORD == <<"p">>
B255 == "<255>"      \* a byte that is not valid in the encoding
GRAVE == "<96>"      \* the grave accent that opens a quoted name in a message

(***************************************************************************)
(* Sequence helpers.                                                       *)
(***************************************************************************)
Range(q) == {q[i] : i \in DOMAIN q}

RECURSIVE RemoveAll(_, _)
RemoveAll(q, x) ==
  IF q = <<>> THEN <<>>
  ELSE IF Head(q) = x THEN RemoveAll(Tail(q), x)
       ELSE <<Head(q)>> \o RemoveAll(Tail(q), x)

RECURSIVE RemoveFirst(_, _)
RemoveFirst(q, x) ==
  IF q = <<>> THEN <<>>
  ELSE IF Head(q) = x THEN Tail(q)
       ELSE <<Head(q)>> \o RemoveFirst(Tail(q), x)

RemoveAt(q, i) == SubSeq(q, 1, i - 1) \o SubSeq(q, i + 1, Len(q))

Index(q, x) == CHOOSE i \in DOMAIN q : q[i] = x /\ \A j \in 1 .. (i - 1) : q[j] # x

RECURSIVE SeqsUpTo(_, _)
SeqsUpTo(S, n) ==
  IF n = 0 THEN {<<>>}
  ELSE LET shorter == SeqsUpTo(S, n - 1)
       IN shorter \cup {Append(q, x) : q \in shorter, x \in S}

(***************************************************************************)
(* TextLine.as_str and the trimming of line terminators.                   *)
(***************************************************************************)
TextLine_as_str(line) ==
  [i \in DOMAIN line |-> IF line[i] = B255 THEN "?(255)" ELSE line[i]]

RECURSIVE ReplaceCRLF(_)
ReplaceCRLF(s) ==
  IF Len(s) < 2 THEN s
  ELSE IF s[1] = "\r" /\ s[2] = "\n" THEN ReplaceCRLF(SubSeq(s, 3, Len(s)))
       ELSE <<s[1]>> \o ReplaceCRLF(Tail(s))

StripTerminators(line) == RemoveAll(ReplaceCRLF(TextLine_as_str(line)), "\n")

Password_verify(candidate) == candidate = PASSWORD

\* Password.hash (proxy.py:112-124): the methods it knows; any other value
\* of cfg['password_hash_method'] makes it raise ValueError.
HashMethods == {"scrypt", "pbkdf2"}

(***************************************************************************)
(* Filters.  A filter call returns [tag, val]: a line, None, or an error.  *)
(***************************************************************************)
FilterCall(kind, ln) ==
  CASE kind = "broken" -> [tag |-> "raise", val |-> <<>>]
    [] kind = "mute" ->
         IF ln # <<>> /\ ln[1] = "#" THEN [tag |-> "none", val |-> <<>>]
         ELSE [tag |-> "line", val |-> ln]
    [] kind = "tag" -> [tag |-> "line", val |-> <<">">> \o ln]
    [] OTHER -> [tag |-> "line", val |-> ln]

FilterRun(tag, val, calls) == [tag |-> tag, val |-> val, calls |-> calls]

\* The loop with an exception of a filter ending it, the line withheld.
RECURSIVE ApplyFilters_abort(_, _)
ApplyFilters_abort(filters, ln) ==
  IF filters = <<>> THEN FilterRun("line", ln, <<>>)
  ELSE LET r == FilterCall(Head(filters), ln)
           call == [filter |-> Head(filters), arg |-> ln]
       IN IF r.tag # "line" THEN FilterRun("none", <<>>, <<call>>)
          ELSE LET rest == ApplyFilters_abort(Tail(filters), r.val)
               IN [rest EXCEPT !.calls = <<call>> \o @]

\* The loop "for f in filters: try: ln = f.from_X(ln) except: log;
\* if ln is None: return": the result is a line or None, and calls lists
\* the filters called with the value each was given.
RECURSIVE ApplyFilters(_, _)
ApplyFilters(filters, ln) ==
  IF filters = <<>> THEN FilterRun("line", ln, <<>>)
  ELSE LET r == FilterCall(Head(filters), ln)
           call == [filter |-> Head(filters), arg |-> ln]
       IN IF r.tag = "none" THEN FilterRun("none", <<>>, <<call>>)
          ELSE LET rest == ApplyFilters(Tail(filters),
                                        IF r.tag = "raise" THEN ln ELSE r.val)
               IN [rest EXCEPT !.calls = <<call>> \o @]

(***************************************************************************)
(* State.                                                                  *)
(***************************************************************************)
VARIABLES
  LOCK,                     \* Proxy.LOCK: "free", "loop" or the server of the thread holding it
  loopPc,                   \* run(): "select", "ready" (lock held, between events),
                            \*        "stopped" (KeyboardInterrupt), "crashed"
  ev,                       \* the last step: [step, server, err]
  cur,                      \* the socket of the last step, when it read or accepted
  framed,                   \* the lines read() returned in the last step
  read_eof,                 \* the eof flag read() returned in the last step
  handled,                  \* the handler calls of the last step: [handler, line]
  socket_wrappers,          \* Proxy.socket_wrappers
  server_sockets,           \* Proxy.server_sockets (a list)
  unauthenticated_sockets,  \* Proxy.unauthenticated_sockets (a list)
  client_sockets,           \* Proxy.client_sockets (a list)
  sel,                      \* sockets registered with Proxy.sel (the listener aside)
  sv_socket,                \* RemoteServer.socket
  sv_connected,             \* RemoteServer.connected
  connecting_in_thread,     \* RemoteServer.connecting_in_thread
  subscribers,              \* RemoteServer.subscribers (a list of clients)
  cl_connected,             \* LocalClient.connected (a client is named by its socket)
  subscribedTo,             \* LocalClient.subscribedTo
  tasks,                    \* per server: the threads running do_start_connection for it
  cl_out,                   \* per client: the lines written to it in the last step
  sv_out,                   \* per server: the lines written to it in the last step
  start_calls,              \* the start_connection calls of the last step: [server, ret]
  password_hash_method      \* cfg['password_hash_method'] (fixed for a run)

regVars == <<LOCK, loopPc, ev, cur, framed, read_eof, handled, socket_wrappers,
             server_sockets, unauthenticated_sockets, client_sockets, sel, sv_socket,
             sv_connected, connecting_in_thread, subscribers, cl_connected,
             subscribedTo, tasks, cl_out, sv_out, start_calls,
             password_hash_method>>

\* One endpoint at the level of bytes (see flush below).
VARIABLES
  b_send_buffer,    \* LineBufferingSocketContainer.__b_send_buffer
  wire,             \* the bytes socket.send has accepted so far, in order
  flush_sends,      \* the send calls of the last flush: [offered, accepted]
  flush_end,        \* how the last flush ended: "done", "block" or "oserror"
  written,          \* the bytes given to write, write_str and write_line so far, in order
  writable          \* FALSE from a send that would block until the socket takes bytes again

ioVars == <<b_send_buffer, wire, flush_sends, flush_end, written, writable>>

\* One FilteredSocket and the add_filters calls made on it.
VARIABLES
  self_filters,     \* FilteredSocket.filters (the names of the filter classes)
  add_before,       \* self.filters when the last add_filters call began
  add_spec,         \* the specification list passed to the last call
  add_raised,       \* the exception the last call raised, "" when none
  fl_line,          \* the line the last step gave to the filter chain, if it did
  fl_calls,         \* the filters the chain called for it: [filter, arg]
  fl_handled        \* what handle_data was called with for it (at most one value)

filterVars == <<self_filters, add_before, add_spec, add_raised,
                fl_line, fl_calls, fl_handled>>

\* The receiving side of the endpoint of ioVars, and its last read().
VARIABLES
  b_recv_buffer,    \* LineBufferingSocketContainer.__b_recv_buffer
  rd_end,           \* how the recv loop of the last read ended
  rd_buffer,        \* __b_recv_buffer when the last read began to strip it
  rd_stripped,      \* the bytes the last read kept (stripped, before the lines are cut)
  rd_in_command,    \* in_command at the end of the last read
  rd_q,             \* the lines the last read returned
  has_eof,          \* the eof flag the last read returned
  rd_before         \* __b_recv_buffer when the last read was called

rdVars == <<b_recv_buffer, rd_end, rd_buffer, rd_stripped, rd_in_command, rd_q, has_eof,
            rd_before>>

vars == <<regVars, ioVars, filterVars, rdVars>>

\* The objects of the process as one value at the start of a step: nothing
\* written or called yet; raised is the exception in flight.
Heap ==
  [socket_wrappers |-> socket_wrappers, server_sockets |-> server_sockets,
   unauthenticated_sockets |-> unauthenticated_sockets,
   client_sockets |-> client_sockets, sel |-> sel, sv_socket |-> sv_socket,
   sv_connected |-> sv_connected, connecting_in_thread |-> connecting_in_thread,
   subscribers |-> subscribers, cl_connected |-> cl_connected,
   subscribedTo |-> subscribedTo, tasks |-> tasks,
   cl_out |-> [c \in Streams |-> <<>>], sv_out |-> [v \in Servers |-> <<>>],
   start_calls |-> <<>>, handled |-> <<>>, raised |-> ""]

\* The sockets (and the clients they name) that some object still refers to.
Referenced(H) ==
  DOMAIN H.socket_wrappers \cup Range(H.server_sockets)
    \cup Range(H.unauthenticated_sockets) \cup Range(H.client_sockets) \cup H.sel
    \cup UNION {Range(H.subscribers[v]) : v \in Servers}
    \cup {H.sv_socket[v] : v \in Servers}
    \cup UNION {{H.tasks[v][i].sock : i \in DOMAIN H.tasks[v]} : v \in Servers}
    \cup UNION {{H.tasks[v][i].sub : i \in DOMAIN H.tasks[v]} : v \in Servers}

\* A socket object is created: an identity nothing refers to.
FreeSockets(H, pool) == pool \ Referenced(H)

NewSocket(H, pool) ==
  CHOOSE s \in FreeSockets(H, pool) : \A x \in FreeSockets(H, pool) : s <= x

\* An object nothing refers to is gone, and its fields with it.
Collect(H) ==
  LET live == Referenced(H)
  IN [H EXCEPT !.cl_connected = [c \in Streams |-> c \in live /\ @[c]],
               !.subscribedTo = [c \in Streams |-> IF c \in live THEN @[c] ELSE NoServer]]

\* The step ends with the objects as in H0.  (H0 is bound as a value, so
\* that it is computed once.)
Store(H0) ==
  \E G \in {H0} : \E H \in {Collect(G)} :
    /\ socket_wrappers' = H.socket_wrappers
    /\ server_sockets' = H.server_sockets
    /\ unauthenticated_sockets' = H.unauthenticated_sockets
    /\ client_sockets' = H.client_sockets
    /\ sel' = H.sel
    /\ sv_socket' = H.sv_socket
    /\ sv_connected' = H.sv_connected
    /\ connecting_in_thread' = H.connecting_in_thread
    /\ subscribers' = H.subscribers
    /\ cl_connected' = H.cl_connected
    /\ subscribedTo' = H.subscribedTo
    /\ tasks' = H.tasks
    /\ cl_out' = H.cl_out
    /\ sv_out' = H.sv_out
    /\ start_calls' = H.start_calls
    /\ handled' = H.handled
    /\ UNCHANGED <<ioVars, filterVars, rdVars, password_hash_method>>

Raise(H, exc) == IF H.raised = "" THEN [H EXCEPT !.raised = exc] ELSE H

(***************************************************************************)
(* LineBufferingSocketContainer, seen from the registry: a write appends   *)
(* to the endpoint's outbound stream and flushes; flush asserts that the   *)
(* endpoint has a socket and is connected (proxy.py:243-244).              *)
(***************************************************************************)
Client_write(H, c, text) ==
  IF H.raised # "" THEN H
  ELSE IF ~H.cl_connected[c]
       THEN Raise([H EXCEPT !.cl_out[c] = Append(@, text)], "AssertionError")
       ELSE [H EXCEPT !.cl_out[c] = Append(@, text)]

Server_write_line(H, v, line) ==
  IF H.raised # "" THEN H
  ELSE IF H.sv_socket[v] = None \/ ~H.sv_connected[v]
       THEN Raise([H EXCEPT !.sv_out[v] = Append(@, line)], "AssertionError")
       ELSE [H EXCEPT !.sv_out[v] = Append(@, line)]

tell_ok(H, c, msg) == Client_write(H, c, <<MESSAGE_PREFIX_OK>> \o msg \o <<"\r\n">>)

tell_err(H, c, msg) == Client_write(H, c, <<MESSAGE_PREFIX_ERR>> \o msg \o <<"\r\n">>)

RECURSIVE TellErrEach(_, _, _)
TellErrEach(H, subs, msg) ==
  IF subs = <<>> THEN H
  ELSE TellErrEach(tell_err(H, Head(subs), msg), Tail(subs), msg)

RECURSIVE WriteLineEach(_, _, _)
WriteLineEach(H, subs, line) ==
  IF subs = <<>> THEN H
  ELSE WriteLineEach(Client_write(H, Head(subs), line), Tail(subs), line)

(***************************************************************************)
(* RemoteServer.                                                           *)
(***************************************************************************)
\* handle_data writing to every authenticated client.
RemoteServer_handle_data_all(H, v, data) == WriteLineEach(H, H.client_sockets, data)

RemoteServer_handle_data(H, v, data) == WriteLineEach(H, H.subscribers[v], data)

warn_all(H, v, msg) == TellErrEach(H, H.subscribers[v], msg)

RemoteServer_attach_socket(H, v, sock) ==
  [H EXCEPT !.sv_socket[v] = sock, !.sv_connected[v] = TRUE]

\* handle_disconnect forgetting the subscribers.
RemoteServer_handle_disconnect_clear(H, v) ==
  TellErrEach([H EXCEPT !.sv_socket[v] = None, !.sv_connected[v] = FALSE,
                        !.subscribers[v] = <<>>],
              H.subscribers[v], <<"Remote server closed connection.">>)

RemoteServer_handle_disconnect(H, v) ==
  TellErrEach([H EXCEPT !.sv_socket[v] = None, !.sv_connected[v] = FALSE],
              H.subscribers[v], <<"Remote server closed connection.">>)

RemoteServer_subscribe(H, v, c) ==
  IF c \in Range(H.subscribers[v]) THEN H
  ELSE [H EXCEPT !.subscribers[v] = Append(@, c)]

RemoteServer_unsubscribe(H, v, c) ==
  [H EXCEPT !.subscribers[v] = RemoveAll(@, c)]

(***************************************************************************)
(* LocalClient.                                                            *)
(***************************************************************************)
LocalClient_unsubscribe(H, c) ==
  IF H.raised # "" THEN H
  ELSE IF H.subscribedTo[c] \in Servers
       THEN [RemoteServer_unsubscribe(H, H.subscribedTo[c], c)
               EXCEPT !.subscribedTo[c] = NoServer]
       ELSE Raise(H, "ValueError")

LocalClient_subscribe(H, c, v) == [H EXCEPT !.subscribedTo[c] = v]

\* handle_data without the test of subscribedTo.connected.
LocalClient_handle_data_nocheck(H, c, data) ==
  IF H.subscribedTo[c] = NoServer THEN tell_err(H, c, <<"Not subscribedTo anything.">>)
  ELSE Server_write_line(H, H.subscribedTo[c], data)

LocalClient_handle_data(H, c, data) ==
  IF H.subscribedTo[c] = NoServer THEN tell_err(H, c, <<"Not subscribedTo anything.">>)
  ELSE IF H.sv_connected[H.subscribedTo[c]]
       THEN Server_write_line(H, H.subscribedTo[c], data)
       ELSE tell_err(H, c, <<"Remote server not connected.">>)

LocalClient_handle_disconnect(H, c) ==
  LET H1 == [H EXCEPT !.cl_connected[c] = FALSE]
  IN IF H1.subscribedTo[c] # NoServer
     THEN RemoteServer_unsubscribe(H1, H1.subscribedTo[c], c)
     ELSE H1

(***************************************************************************)
(* Proxy: the command registry (proxy.py:566-587).                         *)
(***************************************************************************)
Registrations ==
  << <<<<"J">>, "do_client_connect">>,
     <<<<"c", "o", "n", "n", "e", "c", "t">>, "do_client_connect">>,
     <<<<"j">>, "do_client_join">>,
     <<<<"j", "o", "i", "n">>, "do_client_join">>,
     <<<<"d", "r", "o", "p">>, "do_client_drop">>,
     <<<<"d">>, "do_client_drop">>,
     <<<<"h", "u", "s", "h">>, "do_client_drop">>,
     <<<<"h">>, "do_client_help">>,
     <<<<"h", "e", "l", "p">>, "do_client_help">>,
     <<<<"d", "i", "e">>, "do_client_stop_everything">>,
     <<<<"D">>, "do_client_stop_everything">> >>

register_command(cmds, cmdname, cmd) ==
  IF \E i \in DOMAIN cmds : cmds[i][1] = cmdname THEN cmds
  ELSE Append(cmds, <<cmdname, cmd>>)

RECURSIVE RegisterAll(_, _)
RegisterAll(cmds, regs) ==
  IF regs = <<>> THEN cmds
  ELSE RegisterAll(register_command(cmds, Head(regs)[1], Head(regs)[2]), Tail(regs))

client_commands == RegisterAll(<<>>, Registrations)

CommandKnown(cmd) == \E i \in DOMAIN client_commands : client_commands[i][1] = cmd

CommandHandler(cmd) ==
  client_commands[CHOOSE i \in DOMAIN client_commands : client_commands[i][1] = cmd][2]

Docstring(fn) ==
  CASE fn = "do_client_connect" ->
         "Start listening to a server and initiate a connection to it."
    [] fn = "do_client_join" -> "Start listening to a server."
    [] fn = "do_client_drop" ->
         "Stop listening to the server, but without actually closing the connection to it."
    [] fn = "do_client_help" -> "Get help."
    [] OTHER -> "Stop the proxy."

(***************************************************************************)
(* Proxy.wall and start_connection.                                        *)
(***************************************************************************)
RECURSIVE WallEach(_, _, _)
WallEach(H, socks, mesg) ==
  IF socks = <<>> \/ H.raised # "" THEN H
  ELSE IF \/ Head(socks) \notin DOMAIN H.socket_wrappers
          \/ H.socket_wrappers[Head(socks)].kind # "client"
       THEN Raise(H, "AssertionError")
       ELSE WallEach(tell_err(H, Head(socks), mesg), Tail(socks), mesg)

wall(H, mesg) == WallEach(H, H.client_sockets, mesg)

\* A thread about to run do_start_connection: C is not bound yet, and the
\* loop of warn_all (its argument msg, its position k and its variable sub)
\* has not begun.
NewTask == [pc |-> "connect", sock |-> None, msg |-> <<>>, k |-> 0, sub |-> None]

\* start_connection without the test of connecting_in_thread.
start_connection_unchecked(H, v) ==
  IF ~H.sv_connected[v]
  THEN [H EXCEPT !.connecting_in_thread[v] = TRUE, !.tasks[v] = Append(@, NewTask),
                 !.start_calls = Append(@, [server |-> v, ret |-> TRUE])]
  ELSE [H EXCEPT !.start_calls = Append(@, [server |-> v, ret |-> FALSE])]

start_connection(H, v) ==
  IF ~H.connecting_in_thread[v] /\ ~H.sv_connected[v]
  THEN [H EXCEPT !.connecting_in_thread[v] = TRUE, !.tasks[v] = Append(@, NewTask),
                 !.start_calls = Append(@, [server |-> v, ret |-> TRUE])]
  ELSE [H EXCEPT !.start_calls = Append(@, [server |-> v, ret |-> FALSE])]

(***************************************************************************)
(* The client commands.  A command returns [H, ret].                       *)
(***************************************************************************)
ServerNamed(args) == CHOOSE v \in Servers : <<v>> = args

\* do_client_join without "client.unsubscribe()" for the server joined before.
do_client_join_stay(H, args, c) ==
  IF \E v \in Servers : <<v>> = args
  THEN LET v == ServerNamed(args)
           H2 == LocalClient_subscribe(RemoteServer_subscribe(H, v, c), c, v)
       IN [H |-> tell_ok(H2, c, <<"Subscribed to server ", GRAVE>> \o args \o <<"'.">>),
           ret |-> TRUE]
  ELSE [H |-> tell_err(H, c, <<"No such server ", GRAVE>> \o args \o <<"'.">>), ret |-> FALSE]

do_client_join(H, args, c) ==
  IF \E v \in Servers : <<v>> = args
  THEN LET v == ServerNamed(args)
           H1 == IF H.subscribedTo[c] # NoServer THEN LocalClient_unsubscribe(H, c) ELSE H
           H2 == IF H1.raised # "" THEN H1
                 ELSE LocalClient_subscribe(RemoteServer_subscribe(H1, v, c), c, v)
       IN [H |-> tell_ok(H2, c, <<"Subscribed to server ", GRAVE>> \o args \o <<"'.">>),
           ret |-> TRUE]
  ELSE [H |-> tell_err(H, c, <<"No such server ", GRAVE>> \o args \o <<"'.">>), ret |-> FALSE]

do_client_connect(H, args, c) ==
  LET j == do_client_join(H, args, c)
  IN IF j.ret /\ j.H.raised = ""
     THEN [H |-> start_connection(j.H, ServerNamed(args)), ret |-> TRUE]
     ELSE j

\* do_client_drop that also sends the client back to the unauthenticated list.
do_client_drop_deauth(H, args, c) ==
  LET H1 == LocalClient_unsubscribe(H, c)
  IN IF H1.raised = "ValueError"
     THEN [H |-> tell_err([H1 EXCEPT !.raised = ""], c,
                   <<"Couldn't stop listening to this; it may be silent already.">>),
           ret |-> FALSE]
     ELSE [H |-> tell_ok([H1 EXCEPT !.client_sockets = RemoveAll(@, c),
                                    !.unauthenticated_sockets = Append(@, c)],
                         c, <<"Stopped listening.">>),
           ret |-> FALSE]

do_client_drop(H, args, c) ==
  LET H1 == LocalClient_unsubscribe(H, c)
  IN IF H1.raised = "ValueError"
     THEN [H |-> tell_err([H1 EXCEPT !.raised = ""], c,
                   <<"Couldn't stop listening to this; it may be silent already.">>),
           ret |-> FALSE]
     ELSE [H |-> tell_ok(H1, c, <<"Stopped listening.">>), ret |-> FALSE]

\* The names of the commands that call fn, in registration order, joined by ", ".
RECURSIVE NamesOf(_, _)
NamesOf(cmds, fn) ==
  IF cmds = <<>> THEN <<>>
  ELSE LET rest == NamesOf(Tail(cmds), fn)
       IN IF Head(cmds)[2] # fn THEN rest
          ELSE IF rest = <<>> THEN Head(cmds)[1]
               ELSE Head(cmds)[1] \o <<", ">> \o rest

RECURSIVE HelpEach(_, _, _, _)
HelpEach(H, cmds, seen, c) ==
  IF cmds = <<>> THEN H
  ELSE LET fn == Head(cmds)[2]
       IN IF fn \in seen THEN HelpEach(H, Tail(cmds), seen, c)
          ELSE HelpEach(tell_ok(H, c, NamesOf(client_commands, fn) \o <<": ", Docstring(fn)>>),
                        Tail(cmds), seen \cup {fn}, c)

do_client_help(H, args, c) == [H |-> HelpEach(H, client_commands, {}, c), ret |-> FALSE]

do_client_stop_everything(H, args, c) ==
  [H |-> Raise(H, "KeyboardInterrupt"), ret |-> FALSE]

RunCommand(H, fn, args, c) ==
  CASE fn = "do_client_connect" -> do_client_connect(H, args, c)
    [] fn = "do_client_join" -> do_client_join(H, args, c)
    [] fn = "do_client_drop" -> do_client_drop(H, args, c)
    [] fn = "do_client_help" -> do_client_help(H, args, c)
    [] OTHER -> do_client_stop_everything(H, args, c)

(***************************************************************************)
(* The three line handlers.  A handler returns [H, result]; it records its *)
(* call in H.handled.                                                      *)
(***************************************************************************)
Called(H, handler, line) ==
  [H EXCEPT !.handled = Append(@, [handler |-> handler, line |-> line])]

handle_line_server(H, socket, line) ==
  LET v == H.socket_wrappers[socket].name
      H0 == Called(H, "server", line)
      ln == ApplyFilters(ServerFilters[v], line)
  IN IF ln.tag = "none" THEN [H |-> H0, result |-> "None"]
     ELSE [H |-> RemoteServer_handle_data(H0, v, ln.val), result |-> "False"]

\* handle_line_auth that leaves the socket in unauthenticated_sockets.
handle_line_auth_keep(H, socket, line) ==
  LET H0 == Called(H, "auth", line)
      s == StripTerminators(line)
  IN IF Password_verify(s)
     THEN LET H1 == wall(H0, <<"A client has authorized itself.">>)
          IN [H |-> IF H1.raised # "" THEN H1
                    ELSE [H1 EXCEPT !.client_sockets = Append(@, socket)],
              result |-> "True"]
     ELSE [H |-> tell_err(H0, socket, <<"Incorrect.">>), result |-> "True"]

\* handle_line_auth that drops the socket from the list on a wrong credential.
handle_line_auth_lockout(H, socket, line) ==
  LET H0 == Called(H, "auth", line)
      s == StripTerminators(line)
  IN IF Password_verify(s)
     THEN LET H1 == wall(H0, <<"A client has authorized itself.">>)
          IN [H |-> IF H1.raised # "" THEN H1
                    ELSE [H1 EXCEPT !.unauthenticated_sockets = RemoveAll(@, socket),
                                    !.client_sockets = Append(@, socket)],
              result |-> "True"]
     ELSE [H |-> [tell_err(H0, socket, <<"Incorrect.">>)
                    EXCEPT !.unauthenticated_sockets = RemoveAll(@, socket)],
           result |-> "True"]

\* handle_line_auth without "return True" after a successful verification.
handle_line_auth_goon(H, socket, line) ==
  LET H0 == Called(H, "auth", line)
      s == StripTerminators(line)
  IN IF password_hash_method \notin HashMethods
     THEN [H |-> Raise(H0, "ValueError"), result |-> "True"]
     ELSE IF Password_verify(s)
     THEN LET H1 == wall(H0, <<"A client has authorized itself.">>)
          IN [H |-> IF H1.raised # "" THEN H1
                    ELSE [H1 EXCEPT !.unauthenticated_sockets = RemoveAll(@, socket),
                                    !.client_sockets = Append(@, socket)],
              result |-> "None"]
     ELSE [H |-> tell_err(H0, socket, <<"Incorrect.">>), result |-> "True"]

handle_line_auth(H, socket, line) ==
  LET H0 == Called(H, "auth", line)
      s == StripTerminators(line)
  IN IF password_hash_method \notin HashMethods
     THEN [H |-> Raise(H0, "ValueError"), result |-> "True"]
     ELSE IF Password_verify(s)
     THEN LET H1 == wall(H0, <<"A client has authorized itself.">>)
          IN [H |-> IF H1.raised # "" THEN H1
                    ELSE [H1 EXCEPT !.unauthenticated_sockets = RemoveAll(@, socket),
                                    !.client_sockets = Append(@, socket)],
              result |-> "True"]
     ELSE [H |-> tell_err(H0, socket, <<"Incorrect.">>), result |-> "True"]

\* The command part of handle_line_client (proxy.py:749-765): s starts with
\* COMMAND_PREFIX.  KeyboardInterrupt is no Exception and passes the handler.
ProcessCommand(H, s, c) ==
  LET sp == IF " " \in Range(s) THEN Index(s, " ") ELSE 0
      cmd == IF sp > 0 THEN SubSeq(s, 2, sp - 1) ELSE SubSeq(s, 2, Len(s))
      args == IF sp > 0 THEN SubSeq(s, sp + 1, Len(s)) ELSE <<>>
      H1 == IF CommandKnown(cmd) THEN RunCommand(H, CommandHandler(cmd), args, c).H
            ELSE tell_err(H, c, <<"Command ", GRAVE>> \o cmd \o <<"' not found.">>)
  IN IF H1.raised \in {"", "KeyboardInterrupt"} THEN H1
     ELSE tell_err([H1 EXCEPT !.raised = ""], c,
                   <<"Error during command processing: ", H1.raised>>)

handle_line_client(H, socket, line) ==
  LET c == socket
      H0 == Called(H, "client", line)
      ln == ApplyFilters(ClientFilters, line)
      s == StripTerminators(line)
  IN IF ln.tag = "none" THEN [H |-> H0, result |-> "None"]
     ELSE IF s # <<>> /\ s[1] = COMMAND_PREFIX
          THEN [H |-> ProcessCommand(H0, s, c), result |-> "False"]
          ELSE [H |-> LocalClient_handle_data(H0, c, line), result |-> "False"]

(***************************************************************************)
(* Proxy.run: the dispatch of one line over Proxy.states (942-947), and    *)
(* the handling of closure (933-940).                                      *)
(***************************************************************************)
StateList(H, i) ==
  CASE i = 1 -> H.server_sockets
    [] i = 2 -> H.unauthenticated_sockets
    [] OTHER -> H.client_sockets

StateHandler(H, i, s, line) ==
  CASE i = 1 -> handle_line_server(H, s, line)
    [] i = 2 -> handle_line_auth(H, s, line)
    [] OTHER -> handle_line_client(H, s, line)

RECURSIVE RunStates(_, _, _, _)
RunStates(H, s, line, i) ==
  IF i > 3 \/ H.raised # "" THEN H
  ELSE IF s \in Range(StateList(H, i))
       THEN LET r == StateHandler(H, i, s, line)
            IN IF r.result = "True" THEN r.H ELSE RunStates(r.H, s, line, i + 1)
       ELSE RunStates(H, s, line, i + 1)

Endpoint_handle_disconnect(H, s) ==
  IF H.socket_wrappers[s].kind = "server"
  THEN RemoteServer_handle_disconnect(H, H.socket_wrappers[s].name)
  ELSE LocalClient_handle_disconnect(H, s)

\* The removal from the lists without the removal from the map.
RemoveFromStates_keepmap(H, s) ==
  [H EXCEPT !.server_sockets = RemoveFirst(@, s),
            !.unauthenticated_sockets = RemoveFirst(@, s),
            !.client_sockets = RemoveFirst(@, s)]

RemoveFromStates(H, s) ==
  [H EXCEPT !.server_sockets = RemoveFirst(@, s),
            !.unauthenticated_sockets = RemoveFirst(@, s),
            !.client_sockets = RemoveFirst(@, s),
            !.socket_wrappers = [x \in (DOMAIN @) \ {s} |-> @[x]]]

\* "if eof:" of run(): unregister, handle_disconnect, leave the lists and the map.
CloseSocket(H, s) ==
  LET H1 == Endpoint_handle_disconnect([H EXCEPT !.sel = @ \ {s}], s)
  IN IF H1.raised # "" THEN H1 ELSE RemoveFromStates(H1, s)

(***************************************************************************)
(* Inputs: the lines a read() can return.                                  *)
(***************************************************************************)
CredentialLine == <<"p", "\n">>
WrongLine == <<"q", B255, "\r", "\n">>             \* a wrong credential
ConnectALine == <<",", "J", " ", "A", "\r", "\n">>
ConnectBLine == <<",", "J", " ", "B", "\n">>
DropLine == <<",", "d", "\n">>
StopLine == <<",", "D", "\n">>
ChatLine == <<"h", "i", "\n">>                     \* text for the subscribed server

ClientLines ==
  {CredentialLine, WrongLine, ConnectALine, ConnectBLine, DropLine, StopLine, ChatLine}

ServerLines == { <<"x", "\n">>, <<"#", "\n">> }

\* What one read() of a client returns: nothing, one line, or one of a few
\* pairs of lines that arrived together.
ClientBatches ==
  {<<>>} \cup {<<l>> : l \in ClientLines}
    \cup {<<WrongLine, CredentialLine>>, <<CredentialLine, ConnectALine>>,
          <<ChatLine, DropLine>>}

\* What one read() of a server returns: up to MaxBatch lines.
ServerBatches == SeqsUpTo(ServerLines, MaxBatch)

Batches(kind) == IF kind = "server" THEN ServerBatches ELSE ClientBatches

(***************************************************************************)
(* Init: the state when run() starts to loop: the servers of the           *)
(* configuration exist, none is connected, no client is attached.          *)
(***************************************************************************)
Event(step, server, err) == [step |-> step, server |-> server, err |-> err]

RegInit ==
  /\ LOCK = "free"
  /\ loopPc = "select"
  /\ ev = Event("init", NoServer, "")
  /\ cur = None
  /\ framed = <<>>
  /\ read_eof = FALSE
  /\ handled = <<>>
  /\ socket_wrappers = <<>>
  /\ server_sockets = <<>>
  /\ unauthenticated_sockets = <<>>
  /\ client_sockets = <<>>
  /\ sel = {}
  /\ sv_socket = [v \in Servers |-> None]
  /\ sv_connected = [v \in Servers |-> FALSE]
  /\ connecting_in_thread = [v \in Servers |-> FALSE]
  /\ subscribers = [v \in Servers |-> <<>>]
  /\ cl_connected = [c \in Streams |-> FALSE]
  /\ subscribedTo = [c \in Streams |-> NoServer]
  /\ tasks = [v \in Servers |-> <<>>]
  /\ cl_out = [c \in Streams |-> <<>>]
  /\ sv_out = [v \in Servers |-> <<>>]
  /\ start_calls = <<>>

(***************************************************************************)
(* The event loop (run, proxy.py:915-949).                                 *)
(***************************************************************************)
\* An exception that leaves run() ends the loop; the lock stays as it is.
LoopPcAfter(H) ==
  CASE H.raised = "KeyboardInterrupt" -> "stopped"
    [] H.raised # "" -> "crashed"
    [] OTHER -> "ready"

NoRead ==
  /\ cur' = None
  /\ framed' = <<>>
  /\ read_eof' = FALSE

\* select() returns and the loop takes the lock.
LoopAcquire ==
  /\ loopPc = "select"
  /\ LOCK = "free"
  /\ LOCK' = "loop"
  /\ loopPc' = "ready"
  /\ ev' = Event("acquire", NoServer, "")
  /\ Store(Heap)
  /\ NoRead

\* The events of the batch are done: the loop releases the lock.
LoopRelease ==
  /\ loopPc = "ready"
  /\ LOCK' = "free"
  /\ loopPc' = "select"
  /\ ev' = Event("release", NoServer, "")
  /\ Store(Heap)
  /\ NoRead

\* do_accept (proxy.py:864-892): the listener is ready.
do_accept ==
  /\ loopPc = "ready"
  /\ FreeSockets(Heap, ClientStreams) # {}
  /\ LET connection == NewSocket(Heap, ClientStreams)
         H1 == wall(Heap, <<"A client has connected from ", "<address>", ".">>)
         H2 == IF H1.raised # "" THEN H1
               ELSE [H1 EXCEPT
                       !.socket_wrappers =
                          @ @@ (connection :> [kind |-> "client", name |-> NoServer]),
                       !.cl_connected[connection] = TRUE,
                       !.subscribedTo[connection] = NoServer,
                       !.unauthenticated_sockets = Append(@, connection),
                       !.sel = @ \cup {connection}]
     IN /\ Store(H2)
        /\ cur' = connection
        /\ framed' = <<>>
        /\ read_eof' = FALSE
        /\ ev' = Event("accept", NoServer, "")
        /\ loopPc' = LoopPcAfter(H2)
        /\ UNCHANGED LOCK

\* "for line in lines": each line goes through Proxy.states, in order.
RECURSIVE ProcessLines(_, _, _)
ProcessLines(H, s, lines) ==
  IF lines = <<>> \/ H.raised # "" THEN H
  ELSE ProcessLines(RunStates(H, s, Head(lines), 1), s, Tail(lines))

\* The body of the loop for one ready socket (proxy.py:925-947): read()
\* returns (lines, eof); closure is handled, then the lines are dispatched.
ReadEvent(s, lines, eof) ==
  /\ loopPc = "ready"
  /\ s \in sel
  /\ lines \in Batches(IF s \in DOMAIN socket_wrappers
                        THEN socket_wrappers[s].kind ELSE "client")
  /\ LET H1 == IF s \notin DOMAIN socket_wrappers THEN Raise(Heap, "Exception")
               ELSE IF eof THEN CloseSocket(Heap, s) ELSE Heap
         H2 == ProcessLines(H1, s, lines)
     IN /\ \A v \in Servers : Len(H2.tasks[v]) <= MaxTasks
        /\ Store(H2)
        /\ cur' = s
        /\ framed' = lines
        /\ read_eof' = eof
        /\ ev' = Event("read", IF s \in DOMAIN socket_wrappers
                               THEN socket_wrappers[s].name ELSE NoServer, "")
        /\ loopPc' = LoopPcAfter(H2)
        /\ UNCHANGED LOCK

(***************************************************************************)
(* The connector thread (do_start_connection, proxy.py:631-687).           *)
(***************************************************************************)
\* A finally clause that does not clear connecting_in_thread.
TaskFinally_keep(H, v, i) == [H EXCEPT !.tasks[v] = RemoveAt(@, i), !.raised = ""]

\* The end of every path: "finally: server.connecting_in_thread = False".
TaskFinally(H, v, i) ==
  [H EXCEPT !.connecting_in_thread[v] = FALSE,
            !.tasks[v] = RemoveAt(@, i), !.raised = ""]

\* The except clauses (proxy.py:666-681).  The ssl.SSLError clause calls
\* warn_all with two arguments: a TypeError, which the return in the
\* finally clause discards.
ExceptMessage(err) ==
  CASE err = "refused" -> <<"Connection attempt failed: Connection ", "refused">>
    [] err = "network" -> <<"Connection attempt failed, network error: ", "<err>">>
    [] OTHER -> <<"Connection attempt failed, other error: ", "<value>">>

ExceptResult(H, v, err) ==
  IF err = "ssl" THEN Raise(H, "TypeError") ELSE warn_all(H, v, ExceptMessage(err))

\* The outcomes of the handshake (socket.create_connection and, for a server
\* with use_SSL, wrap_socket): "ok", or the exception raised.
Outcomes(v) ==
  {"ok", "refused", "network", "other"} \cup (IF use_SSL[v] THEN {"ssl"} ELSE {})

\* The handshake ends.  On success the thread goes on to take the lock; on
\* an exception the except clause and the finally clause run, without the lock.
ConnectOutcome(v, i, outcome) ==
  /\ i \in DOMAIN tasks[v]
  /\ tasks[v][i].pc = "connect"
  /\ outcome \in Outcomes(v)
  /\ LET out == IF sv_socket[v] # None \/ sv_connected[v] THEN "other" ELSE outcome
     IN /\ ev' = IF out = "ok" THEN Event("connected", v, "") ELSE Event("failed", v, out)
        /\ \E H \in {Heap} :
             IF out = "ok"
             THEN /\ FreeSockets(H, RemoteStreams) # {}
                  /\ Store([H EXCEPT !.tasks[v][i].pc = "acquire",
                                     !.tasks[v][i].sock = NewSocket(H, RemoteStreams)])
             ELSE Store(TaskFinally(ExceptResult(H, v, out), v, i))
  /\ NoRead
  /\ UNCHANGED <<LOCK, loopPc>>

\* self.LOCK.acquire(); rlock = True
TaskAcquire(v, i) ==
  /\ i \in DOMAIN tasks[v]
  /\ tasks[v][i].pc = "acquire"
  /\ LOCK = "free"
  /\ LOCK' = v
  /\ ev' = Event("locked", v, "")
  /\ Store([Heap EXCEPT !.tasks[v][i].pc = "attach"])
  /\ NoRead
  /\ UNCHANGED loopPc

\* Lines 661-664 under the lock.
AttachResult(H, v, i) ==
  LET C == H.tasks[v][i].sock
      H1 == RemoteServer_attach_socket(H, v, C)
  IN [H1 EXCEPT !.socket_wrappers = @ @@ (C :> [kind |-> "server", name |-> v]),
                !.server_sockets = Append(@, C),
                !.sel = @ \cup {C}]

\* What the statements under the lock can do: run to the end ("ok"), or the
\* first of them, socket.setblocking in attach_socket (proxy.py:350), raises
\* an OSError ("network").
AttachOutcomes == {"ok", "network"}

\* The thread attaches the socket (lines 661-664), or fails to and warns in
\* the except clause; it still holds the lock and has the finally clause to run.
TaskAttach(v, i, outcome) ==
  /\ i \in DOMAIN tasks[v]
  /\ tasks[v][i].pc = "attach"
  /\ outcome \in AttachOutcomes
  /\ ev' = IF outcome = "ok" THEN Event("attached", v, "") ELSE Event("failed", v, outcome)
  /\ \E H \in {Heap} :
       Store([(IF outcome = "ok" THEN AttachResult(H, v, i)
               ELSE ExceptResult(H, v, outcome))
                EXCEPT !.tasks[v][i].pc = "finally", !.raised = ""])
  /\ NoRead
  /\ UNCHANGED <<LOCK, loopPc>>

\* The finally clause of a thread that took the lock (lines 683-687): the
\* flag is cleared, the lock released, and the thread ends.
TaskEnd(v, i) ==
  /\ i \in DOMAIN tasks[v]
  /\ tasks[v][i].pc = "finally"
  /\ LOCK' = "free"
  /\ ev' = Event("ended", v, "")
  /\ \E H \in {Heap} : Store(TaskFinally(H, v, i))
  /\ NoRead
  /\ UNCHANGED loopPc

(***************************************************************************)
(* The path of a failed handshake statement by statement: the except       *)
(* clause runs warn_all (proxy.py:466-470) without the lock, so the event  *)
(* loop can run between any two of its statements.                         *)
(***************************************************************************)
\* The handshake raises and the matching except clause is entered: warn_all
\* is called (the ssl clause's call raises a TypeError instead).
HandshakeRaises(v, i, outcome) ==
  /\ i \in DOMAIN tasks[v]
  /\ tasks[v][i].pc = "connect"
  /\ outcome \in Outcomes(v) \ {"ok"}
  /\ Cardinality({w \in Servers : \E j \in DOMAIN tasks[w] :
                                    tasks[w][j].pc # "connect"}) < MaxRaised
  /\ LET out == IF sv_socket[v] # None \/ sv_connected[v] THEN "other" ELSE outcome
     IN /\ ev' = Event("raised", v, out)
        /\ Store([Heap EXCEPT !.tasks[v][i].pc = IF out = "ssl" THEN "return" ELSE "for",
                              !.tasks[v][i].msg = ExceptMessage(out),
                              !.tasks[v][i].k = 1])
  /\ NoRead
  /\ UNCHANGED <<LOCK, loopPc>>

\* "for sub in self.subscribers": the iterator yields the element at its
\* position in the list as it is now, or the loop ends.
warn_all_for(v, i) ==
  /\ i \in DOMAIN tasks[v]
  /\ tasks[v][i].pc = "for"
  /\ ev' = Event("for", v, "")
  /\ LET k == tasks[v][i].k
     IN Store(IF k <= Len(subscribers[v])
              THEN [Heap EXCEPT !.tasks[v][i].pc = "tell",
                                !.tasks[v][i].sub = subscribers[v][k],
                                !.tasks[v][i].k = k + 1]
              ELSE [Heap EXCEPT !.tasks[v][i].pc = "return",
                                !.tasks[v][i].sub = None])
  /\ NoRead
  /\ UNCHANGED <<LOCK, loopPc>>

\* "sub.tell_err(msg)": write_str appends to the buffer of sub and calls
\* flush, whose assertion raises when sub has no socket any more; the
\* exception leaves the except clause for the finally clause.
warn_all_tell(v, i) ==
  /\ i \in DOMAIN tasks[v]
  /\ tasks[v][i].pc = "tell"
  /\ \E H \in {tell_err(Heap, tasks[v][i].sub, tasks[v][i].msg)} :
       /\ ev' = Event("tell", v, H.raised)
       /\ Store([H EXCEPT !.tasks[v][i].pc = IF H.raised = "" THEN "for" ELSE "return",
                          !.tasks[v][i].sub = IF H.raised = "" THEN @ ELSE None,
                          !.raised = ""])
  /\ NoRead
  /\ UNCHANGED <<LOCK, loopPc>>

\* The finally clause of a thread that did not take the lock (rlock is
\* False): the flag is cleared and the return discards any exception.
TaskReturn(v, i) ==
  /\ i \in DOMAIN tasks[v]
  /\ tasks[v][i].pc = "return"
  /\ ev' = Event("returned", v, "")
  /\ \E H \in {Heap} : Store(TaskFinally(H, v, i))
  /\ NoRead
  /\ UNCHANGED <<LOCK, loopPc>>

(***************************************************************************)
(* LineBufferingSocketContainer at the level of bytes: one connected       *)
(* endpoint, its send buffer and what its socket has transmitted.          *)
(***************************************************************************)
Bytes == {LINE_SEPARATOR, 97}

FlushRun(buf, w, sends, end) ==
  [buf |-> buf, wire |-> w, sends |-> sends, end |-> end]

\* flush() offering the whole buffer to send.
RECURSIVE flush_whole(_, _, _)
flush_whole(buf, w, sends) ==
  IF buf = <<>> \/ LINE_SEPARATOR \notin Range(buf)
  THEN {FlushRun(buf, w, sends, "done")}
  ELSE {FlushRun(buf, w, sends, e) : e \in {"block", "oserror"}}
       \cup UNION {flush_whole(SubSeq(buf, n + 1, Len(buf)), w \o SubSeq(buf, 1, n),
                               Append(sends, [offered |-> Len(buf), accepted |-> n]))
                     : n \in 1 .. Len(buf)}

\* flush() cutting off what it offered to send, whatever send accepted.
RECURSIVE flush_offered(_, _, _)
flush_offered(buf, w, sends) ==
  IF buf = <<>> \/ LINE_SEPARATOR \notin Range(buf)
  THEN {FlushRun(buf, w, sends, "done")}
  ELSE LET t == Index(buf, LINE_SEPARATOR)
       IN {FlushRun(buf, w, sends, e) : e \in {"block", "oserror"}}
          \cup UNION {flush_offered(SubSeq(buf, t + 1, Len(buf)), w \o SubSeq(buf, 1, n),
                                    Append(sends, [offered |-> t, accepted |-> n]))
                        : n \in 1 .. t}

\* flush() (proxy.py:240-258): every way the loop can run.  A send of t bytes
\* accepts 1..t of them or raises (would-block, or another OSError), which
\* ends the loop with the buffer as it was.
RECURSIVE flush(_, _, _)
flush(buf, w, sends) ==
  IF buf = <<>> \/ LINE_SEPARATOR \notin Range(buf)
  THEN {FlushRun(buf, w, sends, "done")}
  ELSE LET t == Index(buf, LINE_SEPARATOR)
       IN {FlushRun(buf, w, sends, e) : e \in {"block", "oserror"}}
          \cup UNION {flush(SubSeq(buf, n + 1, Len(buf)), w \o SubSeq(buf, 1, n),
                            Append(sends, [offered |-> t, accepted |-> n]))
                        : n \in 1 .. t}

IOInit ==
  /\ b_send_buffer = <<>>
  /\ wire = <<>>
  /\ flush_sends = <<>>
  /\ flush_end = "done"
  /\ written = <<>>
  /\ writable = TRUE

\* write / write_str / write_line (proxy.py:216-238): append, then flush.
write(data) ==
  /\ Len(wire) + Len(b_send_buffer) + Len(data) <= MaxBytes
  /\ \E r \in flush(b_send_buffer \o data, wire, <<>>) :
       /\ b_send_buffer' = r.buf
       /\ wire' = r.wire
       /\ flush_sends' = r.sends
       /\ flush_end' = r.end
  /\ written' = written \o data
  /\ writable' = (flush_end' # "block")
  /\ UNCHANGED <<regVars, filterVars, rdVars>>

\* The peer has read: the socket takes bytes again.  The selector has the
\* socket registered for EVENT_READ only (proxy.py:664, 887), so select
\* (916) reports nothing for it and no statement of the program runs.
socket_writable ==
  /\ ~writable
  /\ writable' = TRUE
  /\ UNCHANGED <<regVars, filterVars, rdVars, b_send_buffer, wire, flush_sends,
                 flush_end, written>>

(***************************************************************************)
(* read() (proxy.py:260-346) at the level of bytes.                        *)
(***************************************************************************)
RecvBytes == {LINE_SEPARATOR, 97, WILL, DONT, IAC}

\* How the recv loop can end (proxy.py:268-289): a recv shorter than
\* RECV_MAX that is not empty ("short"), an empty recv ("eof"), or recv
\* raising: would-block ("block"), ConnectionResetError ("reset"), another
\* OSError ("oserror").
RecvEnds == {"short", "eof", "block", "reset", "oserror"}

\* The except clauses in their order: OSError comes before
\* ConnectionResetError, which is an OSError, so a reset takes the OSError
\* clause and has_eof stays False.
HasEof(end) == end = "eof"

\* A stripper that drops IAC, IAC like any other two-byte command.
RECURSIVE Strip_nodouble(_, _, _, _)
Strip_nodouble(buf, x, in_command, stripped) ==
  IF x > Len(buf) THEN [stripped |-> stripped, in_command |-> in_command]
  ELSE IF in_command
       THEN IF buf[x] <= DONT /\ buf[x] >= WILL
            THEN Strip_nodouble(buf, x + 1, in_command, stripped)
            ELSE Strip_nodouble(buf, x + 1, FALSE, stripped)
       ELSE IF buf[x] = IAC THEN Strip_nodouble(buf, x + 1, TRUE, stripped)
            ELSE Strip_nodouble(buf, x + 1, in_command, Append(stripped, buf[x]))

\* The loop "while x < len(self.__b_recv_buffer)" from byte x on.
RECURSIVE Strip(_, _, _, _)
Strip(buf, x, in_command, stripped) ==
  IF x > Len(buf) THEN [stripped |-> stripped, in_command |-> in_command]
  ELSE IF in_command
       THEN IF buf[x] = IAC THEN Strip(buf, x + 1, FALSE, Append(stripped, IAC))
            ELSE IF buf[x] <= DONT /\ buf[x] >= WILL
                 THEN Strip(buf, x + 1, in_command, stripped)
                 ELSE Strip(buf, x + 1, FALSE, stripped)
       ELSE IF buf[x] = IAC THEN Strip(buf, x + 1, TRUE, stripped)
            ELSE Strip(buf, x + 1, in_command, Append(stripped, buf[x]))

\* "while self.linesep in stripped": the lines cut off and what is left.
RECURSIVE CutLines(_, _)
CutLines(q, stripped) ==
  IF LINE_SEPARATOR \notin Range(stripped) THEN [q |-> q, rest |-> stripped]
  ELSE LET t == Index(stripped, LINE_SEPARATOR)
       IN CutLines(Append(q, SubSeq(stripped, 1, t)),
                   SubSeq(stripped, t + 1, Len(stripped)))

ReadInit ==
  /\ b_recv_buffer = <<>>
  /\ rd_end = "block"
  /\ rd_buffer = <<>>
  /\ rd_stripped = <<>>
  /\ rd_in_command = FALSE
  /\ rd_q = <<>>
  /\ has_eof = FALSE
  /\ rd_before = <<>>

\* One call of read(): the recv loop puts data after what an earlier read
\* left and ends; the buffer is stripped and cut into lines; an IAC is put
\* into the send buffer when the buffer ended inside a command.
read(data, end) ==
  /\ Len(b_recv_buffer) + Len(data) <= MaxRecvBuffer
  /\ end = "short" => data # <<>>
  /\ LET buf == b_recv_buffer \o data
         r == Strip(buf, 1, FALSE, <<>>)
         c == CutLines(<<>>, r.stripped)
     IN /\ r.in_command => Len(b_send_buffer) < MaxQueued
        /\ rd_buffer' = buf
        /\ rd_stripped' = r.stripped
        /\ rd_in_command' = r.in_command
        /\ rd_q' = c.q
        /\ b_recv_buffer' = c.rest
        /\ b_send_buffer' = IF r.in_command THEN Append(b_send_buffer, IAC)
                            ELSE b_send_buffer
  /\ rd_end' = end
  /\ has_eof' = HasEof(end)
  /\ rd_before' = b_recv_buffer
  /\ UNCHANGED <<regVars, filterVars, wire, flush_sends, flush_end, written, writable>>

(***************************************************************************)
(* FilteredSocket.add_filters (proxy.py:379-400).  A specification is      *)
(* [islist, entries]; an entry is [wellformed, name], wellformed standing  *)
(* for "a list of a str and a dict".                                       *)
(***************************************************************************)
Prototypes == {"broken", "mute", "tag"}

SpecEntries ==
  {[wellformed |-> TRUE, name |-> n] : n \in Prototypes \cup {"nosuch"}}
    \cup {[wellformed |-> FALSE, name |-> "mute"]}

FilterSpecs ==
  {[islist |-> TRUE, entries |-> q] : q \in SeqsUpTo(SpecEntries, MaxSpecs)}
    \cup {[islist |-> FALSE, entries |-> <<>>]}

AddResult(fs, exc) == [filters |-> fs, raised |-> exc]

\* "for f in filters:": an entry is checked and then appended at once.
RECURSIVE AddEach(_, _, _)
AddEach(fs, entries, prototypes) ==
  IF entries = <<>> THEN AddResult(fs, "")
  ELSE LET f == Head(entries)
       IN IF ~f.wellformed \/ f.name \notin prototypes
          THEN AddResult(fs, "FilterSpecificationError")
          ELSE AddEach(Append(fs, f.name), Tail(entries), prototypes)

add_filters(fs, filters, prototypes) ==
  IF ~filters.islist THEN AddResult(fs, "FilterSpecificationError")
  ELSE AddEach(fs, filters.entries, prototypes)

FilterInit ==
  /\ self_filters = <<>>
  /\ add_before = <<>>
  /\ add_spec = [islist |-> TRUE, entries |-> <<>>]
  /\ add_raised = ""
  /\ fl_line = <<>>
  /\ fl_calls = <<>>
  /\ fl_handled = <<>>

\* One call of add_filters on the connection.
attach(spec) ==
  /\ Len(self_filters) + Len(spec.entries) <= MaxFilters
  /\ \E r \in {add_filters(self_filters, spec, Prototypes)} :
       /\ self_filters' = r.filters
       /\ add_raised' = r.raised
  /\ add_before' = self_filters
  /\ add_spec' = spec
  /\ fl_line' = <<>>
  /\ fl_calls' = <<>>
  /\ fl_handled' = <<>>
  /\ UNCHANGED <<regVars, ioVars, rdVars>>

\* One line of the connection goes through its filter chain and, unless a
\* filter returned None, to handle_data (handle_line_server).
filter_line(line) ==
  /\ \E ln \in {ApplyFilters(self_filters, line)} :
       /\ fl_calls' = ln.calls
       /\ fl_handled' = IF ln.tag = "none" THEN <<>> ELSE <<ln.val>>
  /\ fl_line' = line
  /\ UNCHANGED <<regVars, ioVars, rdVars, self_filters, add_before, add_spec, add_raised>>

(***************************************************************************)
(* Specifications.                                                         *)
(***************************************************************************)
\* A run with the default configuration of the password hash.
Init == RegInit /\ IOInit /\ FilterInit /\ ReadInit /\ password_hash_method = "scrypt"

\* A run whose configuration may name a hash method Password.hash does not
\* know (the password file exists, so that the Proxy is constructed).
ConfiguredHashMethods == {"scrypt", "md5"}

ConfigInit ==
  /\ RegInit /\ IOInit /\ FilterInit /\ ReadInit
  /\ password_hash_method \in ConfiguredHashMethods

HandshakeOutcomes == {"ok", "refused", "ssl", "network", "other"}

Next ==
  \/ LoopAcquire
  \/ LoopRelease
  \/ do_accept
  \/ \E s \in Streams, lines \in ClientBatches \cup ServerBatches, eof \in BOOLEAN :
       ReadEvent(s, lines, eof)
  \/ \E v \in Servers, i \in 1 .. MaxTasks, outcome \in HandshakeOutcomes :
       ConnectOutcome(v, i, outcome)
  \/ \E v \in Servers, i \in 1 .. MaxTasks : TaskAcquire(v, i)
  \/ \E v \in Servers, i \in 1 .. MaxTasks, outcome \in AttachOutcomes :
       TaskAttach(v, i, outcome)
  \/ \E v \in Servers, i \in 1 .. MaxTasks : TaskEnd(v, i)

\* The registry, the event loop and the connector threads.
Spec == Init /\ [][Next]_vars

\* A step a connector thread of server v takes without waiting for the lock.
ThreadStep(v) ==
  \E i \in 1 .. MaxTasks :
    \/ \E outcome \in HandshakeOutcomes : ConnectOutcome(v, i, outcome)
    \/ \E outcome \in AttachOutcomes : TaskAttach(v, i, outcome)
    \/ TaskEnd(v, i)

\* The same with the scheduling the threads get: a handshake returns, a
\* thread that can run does, and, a batch of events being finite, the loop
\* releases the lock again and again, so that a thread waiting for it gets it.
Fairness ==
  /\ SF_vars(LoopRelease)
  /\ \A v \in Servers :
       /\ WF_vars(ThreadStep(v))
       /\ SF_vars(\E i \in 1 .. MaxTasks : TaskAcquire(v, i))

LiveSpec == Spec /\ Fairness

\* The handshakes that end in the first two except clauses: the connection
\* is refused, or wrap_socket raises an ssl.SSLError.
RefusedOutcomes == {"refused", "ssl"}

\* The event loop and connector threads whose handshakes fail, the failure
\* path taken statement by statement.
RaceNext ==
  \/ LoopAcquire
  \/ LoopRelease
  \/ do_accept
  \/ \E s \in Streams, lines \in ClientBatches \cup ServerBatches, eof \in BOOLEAN :
       ReadEvent(s, lines, eof)
  \/ \E v \in Servers, i \in 1 .. MaxTasks, outcome \in RefusedOutcomes :
       HandshakeRaises(v, i, outcome)
  \/ \E v \in Servers, i \in 1 .. MaxTasks : warn_all_for(v, i)
  \/ \E v \in Servers, i \in 1 .. MaxTasks : warn_all_tell(v, i)
  \/ \E v \in Servers, i \in 1 .. MaxTasks : TaskReturn(v, i)

RaceSpec == Init /\ [][RaceNext]_vars

\* The same program under any configuration of the password hash.
ConfigSpec == ConfigInit /\ [][Next]_vars

\* One connected endpoint written to over a transport that accepts what it likes.
IONext == \E data \in SeqsUpTo(Bytes, MaxWrite) \ {<<>>} : write(data)

IOSpec == Init /\ [][IONext]_vars

\* One endpoint reading from a transport that sends any bytes.
ReadNext ==
  \E data \in SeqsUpTo(RecvBytes, MaxRecvBuffer), end \in RecvEnds : read(data, end)

ReadSpec == Init /\ [][ReadNext]_vars

\* The same endpoint with its transport: whenever a send would block, the
\* socket takes bytes again later on.  No write is required ever to happen.
DrainNext == IONext \/ socket_writable

DrainSpec == Init /\ [][DrainNext]_vars /\ WF_vars(socket_writable)

\* One connection given filter specifications, good and bad.
FilterNext ==
  \/ \E spec \in FilterSpecs : attach(spec)
  \/ \E line \in ServerLines : filter_line(line)

FilterSpec == Init /\ [][FilterNext]_vars

(***************************************************************************)
(* Properties of the session registry.                                     *)
(***************************************************************************)
Occurrences(q, s) == Cardinality({i \in DOMAIN q : q[i] = s})

\* Every stream the registry knows of: a key of the map, an entry of one of
\* the three lists, or registered with the selector.
Tracked ==
  DOMAIN socket_wrappers \cup Range(server_sockets) \cup Range(unauthenticated_sockets)
    \cup Range(client_sockets) \cup sel

\* C1: in every state, every tracked stream is a key of socket_wrappers and
\* occurs exactly once in the three lists taken together: it is in exactly
\* one of the remote-server, unauthenticated and authenticated sets.
C1_ExactlyOneMembership ==
  \A s \in Tracked :
    /\ s \in DOMAIN socket_wrappers
    /\ Occurrences(server_sockets, s) + Occurrences(unauthenticated_sockets, s)
         + Occurrences(client_sockets, s) = 1

\* A closure has just removed a stream while a server and an authenticated
\* client stay tracked.
C1_Witness ==
  /\ ev.step = "read" /\ read_eof /\ cur \notin Tracked
  /\ server_sockets # <<>>
  /\ client_sockets # <<>>

\* C2: a stream in the authenticated list is never in the unauthenticated
\* list after a step, and it leaves the authenticated list only in the step
\* that reads its closure, which also takes it out of the map.
C2_AuthenticationMonotonic ==
  [][\A s \in Range(client_sockets) :
       /\ s \notin Range(unauthenticated_sockets')
       /\ s \notin Range(client_sockets') =>
            /\ ev'.step = "read" /\ read_eof' /\ cur' = s
            /\ s \notin DOMAIN socket_wrappers']_vars

\* An authenticated and subscribed client has sent the drop command and is
\* still authenticated.
C2_Witness ==
  /\ ev.step = "read" /\ ~read_eof
  /\ cur \in Range(client_sockets)
  /\ handled = <<[handler |-> "client", line |-> DropLine]>>
  /\ cl_out[cur] = <<<<MESSAGE_PREFIX_OK, "Stopped listening.", "\r\n">>>>

\* C3: a server has at most one connector thread, and has one only while it
\* is marked connecting and, until that thread has attached a socket and is
\* about to end, is not connected; a start_connection call returns
\* True and starts a thread exactly when the server had no thread and was not
\* connected, and otherwise returns False and starts nothing.
C3_OneAttempt ==
  /\ [](\A v \in Servers :
         /\ Len(tasks[v]) <= 1
         /\ tasks[v] # <<>> =>
              /\ connecting_in_thread[v]
              /\ sv_connected[v] => tasks[v][1].pc = "finally")
  /\ [][\A k \in DOMAIN start_calls' :
          LET v == start_calls'[k].server
          IN IF start_calls'[k].ret
             THEN tasks[v] = <<>> /\ ~sv_connected[v] /\ tasks'[v] = <<NewTask>>
             ELSE (tasks[v] # <<>> \/ sv_connected[v]) /\ tasks'[v] = tasks[v]]_vars

\* A start_connection call was refused while the first attempt was still in
\* its handshake.
C3_Witness ==
  \E k \in DOMAIN start_calls :
    /\ ~start_calls[k].ret
    /\ tasks[start_calls[k].server] = <<NewTask>>

(***************************************************************************)
(* Properties of flush.                                                    *)
(***************************************************************************)
\* The place of the last separator in q, 0 when it has none.
LastSeparator(q) ==
  IF LINE_SEPARATOR \in Range(q)
  THEN CHOOSE i \in DOMAIN q :
         q[i] = LINE_SEPARATOR /\ \A j \in (i + 1) .. Len(q) : q[j] # LINE_SEPARATOR
  ELSE 0

EndsAtSeparator(q) == q = <<>> \/ q[Len(q)] = LINE_SEPARATOR

\* C4 as claimed: after every flush the bytes transmitted so far are empty
\* or end at a separator, and no byte after the last separator written has
\* been sent.
C4_NeverSplitsLine ==
  /\ EndsAtSeparator(wire)
  /\ Len(wire) <= LastSeparator(wire \o b_send_buffer)

\* C4 as amended: no byte after the last separator written has been sent; a
\* flush whose loop ran to its end leaves no separator in the buffer and the
\* transmitted bytes empty or ending at a separator; and when the
\* transmitted bytes end inside a line, the last flush was ended by the
\* transport (would-block or another OSError) and the rest of that line,
\* separator included, is still in the buffer.
C4_SendsOnlyCompleteLines ==
  /\ Len(wire) <= LastSeparator(wire \o b_send_buffer)
  /\ flush_end = "done" =>
       EndsAtSeparator(wire) /\ LINE_SEPARATOR \notin Range(b_send_buffer)
  /\ ~EndsAtSeparator(wire) =>
       flush_end \in {"block", "oserror"} /\ LINE_SEPARATOR \in Range(b_send_buffer)

\* A send accepted only the first byte of a line and the next send would
\* block: the transmitted bytes end inside the line.
C4_Witness ==
  /\ flush_end = "block"
  /\ flush_sends = <<[offered |-> 2, accepted |-> 1]>>
  /\ wire = <<97>>
  /\ b_send_buffer = <<LINE_SEPARATOR>>

\* C25: in every behaviour of write calls, whatever each send did (took all
\* it was offered, took a part, would block, raised another OSError), the
\* bytes transmitted followed by the send buffer are the bytes written, in
\* order: a flush that the transport ended left in the buffer exactly the
\* bytes not transmitted, and the next flush goes on from the first of them.
C25_OutboundConserved == wire \o b_send_buffer = written

\* A first flush was ended by the transport after one byte of the line; the
\* flush of the next write sent the rest of that line first and then the new
\* line, and everything written is transmitted.
C25_Witness ==
  /\ written = <<97, LINE_SEPARATOR, 97, LINE_SEPARATOR>>
  /\ flush_sends = <<[offered |-> 1, accepted |-> 1], [offered |-> 2, accepted |-> 2]>>
  /\ wire = written
  /\ b_send_buffer = <<>>

\* C30: when a flush was ended by a send that would block and left complete
\* lines in the send buffer, the lines are transmitted (the buffer comes to
\* hold no complete line) once the socket takes bytes again, whether or not
\* a write follows.
C30_DeferredOutputSent ==
  (flush_end = "block" /\ LINE_SEPARATOR \in Range(b_send_buffer))
    ~> (writable /\ LINE_SEPARATOR \notin Range(b_send_buffer))

(***************************************************************************)
(* Properties of the delivery of lines.                                    *)
(***************************************************************************)
\* The lines of a server that its filter chain lets through, as it outputs them.
RECURSIVE Passing(_, _)
Passing(v, lines) ==
  IF lines = <<>> THEN <<>>
  ELSE LET ln == ApplyFilters(ServerFilters[v], Head(lines))
       IN (IF ln.tag = "line" THEN <<ln.val>> ELSE <<>>) \o Passing(v, Tail(lines))

HandledLines == [k \in DOMAIN handled |-> handled[k].line]

\* C5: when the last step passed lines of server v to handle_line_server,
\* each client subscribed to v was written exactly the lines the filter
\* chain let through, once each, and no other client and no server was
\* written anything.
C5_BroadcastToSubscribers ==
  (/\ ev.step = "read" /\ ev.server \in Servers
   /\ handled # <<>>
   /\ \A k \in DOMAIN handled : handled[k].handler = "server") =>
     /\ \A c \in Streams :
          cl_out[c] = IF c \in Range(subscribers[ev.server])
                      THEN Passing(ev.server, HandledLines) ELSE <<>>
     /\ \A w \in Servers : sv_out[w] = <<>>

\* A line of server A went to its subscriber and not to another
\* authenticated client that is not subscribed to A.
C5_Witness ==
  /\ ev.step = "read" /\ ev.server = "A" /\ ~read_eof
  /\ \E c \in Range(subscribers["A"]), d \in Range(client_sockets) :
       /\ d \notin Range(subscribers["A"])
       /\ cl_out[c] = <<<<">", "x", "\n">>>>
       /\ cl_out[d] = <<>>

IsData(text) == text[1] # MESSAGE_PREFIX_ERR

\* C6: when a read framed lines from a server's stream, every subscriber of
\* the server has, in its outbound stream, the lines the filter chain lets
\* through, in the order framed and once each.
C6_OrderPreserved ==
  (ev.step = "read" /\ ev.server \in Servers) =>
    \A c \in Range(subscribers[ev.server]) :
      SelectSeq(cl_out[c], IsData) = Passing(ev.server, framed)

\* C7: the lines a read of a tracked stream returned are the lines passed to
\* the handlers, one call per line and in order, by the handler of a server
\* for a server's stream and by a handler of clients for a client's.
C7_EveryLineDispatched ==
  ev.step = "read" =>
    /\ HandledLines = framed
    /\ \A k \in DOMAIN handled :
         (handled[k].handler = "server") <=> (ev.server \in Servers)

\* C8: when a connection attempt for server v has failed, every subscriber
\* of v was written one warning that starts with MESSAGE_PREFIX_ERR (and
\* names the refusal when the attempt was refused), no other client was
\* written to, and v has no socket, is not connected and is in no map or list.
C8_FailureWarnsSubscribers ==
  ev.step = "failed" =>
    /\ \A c \in Streams :
         IF c \in Range(subscribers[ev.server])
         THEN /\ Len(cl_out[c]) = 1
              /\ cl_out[c][1][1] = MESSAGE_PREFIX_ERR
              /\ ev.err = "refused" => "refused" \in Range(cl_out[c][1])
         ELSE cl_out[c] = <<>>
    /\ sv_socket[ev.server] = None /\ ~sv_connected[ev.server]
    /\ \A s \in DOMAIN socket_wrappers : socket_wrappers[s].name # ev.server

(***************************************************************************)
(* Properties of read.                                                     *)
(***************************************************************************)
\* The places of the buffer of the last read where a command begins that
\* stands among ordinary bytes: an IAC at i, the command n bytes long, and
\* no other IAC before it or after it.
AloneAt(i, n) ==
  /\ i + n - 1 <= Len(rd_buffer)
  /\ rd_buffer[i] = IAC
  /\ \A j \in DOMAIN rd_buffer : (j < i \/ j >= i + n) => rd_buffer[j] # IAC

Without(i, n) == SubSeq(rd_buffer, 1, i - 1) \o SubSeq(rd_buffer, i + n, Len(rd_buffer))

\* C13: when the buffer of a read holds IAC, W, O with W in WILL..DONT and O
\* any byte, among ordinary bytes, the read keeps exactly the other bytes.
C13_OptionCommandRemoved ==
  \A i \in DOMAIN rd_buffer :
    (AloneAt(i, 3) /\ rd_buffer[i + 1] \in WILL .. DONT)
      => rd_stripped = Without(i, 3) /\ ~rd_in_command

\* C14: when the buffer of a read holds IAC, IAC among ordinary bytes, the
\* read keeps the other bytes with one byte 255 in the place of the two, and
\* ends outside command mode.
C14_DoubledIACIsLiteral ==
  \A i \in DOMAIN rd_buffer :
    (i < Len(rd_buffer) /\ rd_buffer[i + 1] = IAC /\ rd_buffer[i] = IAC
       /\ \A j \in DOMAIN rd_buffer : j \notin {i, i + 1} => rd_buffer[j] # IAC)
      => /\ rd_stripped = SubSeq(rd_buffer, 1, i - 1) \o <<IAC>>
                            \o SubSeq(rd_buffer, i + 2, Len(rd_buffer))
         /\ ~rd_in_command

\* A read found IAC, IAC after an ordinary byte and kept one byte 255.
C14_Witness ==
  /\ rd_buffer = <<97, IAC, IAC>>
  /\ rd_stripped = <<97, IAC>>
  /\ ~rd_in_command

\* C17: a read whose recv loop was ended by a connection reset or by
\* another OSError returns eof, on which run() tears the endpoint down.
C17_ResetReportsEof == rd_end \in {"reset", "oserror"} => has_eof

\* C26: when a read ended inside a telnet command (right after IAC, or
\* after IAC and WILL, WONT, DO or DONT), the next read goes on as if its
\* bytes had arrived in that read: the lines of the two reads together and
\* the bytes kept for later are those of one read of all the bytes, and the
\* read that ended inside the command left the send buffer alone.
C26_SplitCommandRemoved ==
  [][/\ rd_in_command =>
          LET data == SubSeq(rd_buffer', Len(b_recv_buffer) + 1, Len(rd_buffer'))
              one == Strip(rd_buffer \o data, 1, FALSE, <<>>)
              c == CutLines(<<>>, one.stripped)
          IN /\ rd_q \o rd_q' = c.q
             /\ b_recv_buffer' = c.rest
     /\ rd_in_command' => b_send_buffer' = b_send_buffer
    ]_vars

\* C31: when a read that began with an empty receive buffer ended outside
\* a telnet command, that read and the next one return together the lines
\* one read of all their bytes returns, and keep the same bytes for later:
\* no byte is stripped twice, and a 255 that IAC, IAC left in an unfinished
\* line is in that line when its separator comes.
C31_StrippedOnce ==
  [][(rd_before = <<>> /\ ~rd_in_command) =>
       LET data == SubSeq(rd_buffer', Len(b_recv_buffer) + 1, Len(rd_buffer'))
           one == Strip(rd_buffer \o data, 1, FALSE, <<>>)
           c == CutLines(<<>>, one.stripped)
       IN /\ rd_q \o rd_q' = c.q
          /\ b_recv_buffer' = c.rest
    ]_vars

\* C32: a read leaves the send buffer as it was, whatever it received and
\* however its recv loop ended.
C32_ReadKeepsSendBuffer == [][b_send_buffer' = b_send_buffer]_vars

(***************************************************************************)
(* Properties of add_filters.                                              *)
(***************************************************************************)
\* C12: when an add_filters call raised the specification error, the
\* connection has the filters it had before the call: the call added none.
C12_FailsClosed == add_raised # "" => self_filters = add_before

\* What the k-th filter called left as the line: what it returned, or, when
\* it raised, the value it was given.
FilterLeft(k) ==
  LET r == FilterCall(fl_calls[k].filter, fl_calls[k].arg)
  IN IF r.tag = "raise" THEN [tag |-> "line", val |-> fl_calls[k].arg] ELSE r

\* C24: when the last step gave a line to the filter chain, the filters
\* called are the first ones of the chain, in attachment order; the first was
\* given the line and each later one what the one before it left, a filter
\* that raised leaving the value it was given; the calls stop before the end
\* of the chain exactly when the last filter called returned None, and then
\* handle_data is not called; otherwise handle_data is called once, with
\* what the last filter left.
C24_FilterErrorsIsolated ==
  fl_line # <<>> =>
    LET n == Len(fl_calls)
    IN /\ n <= Len(self_filters)
       /\ \A k \in 1 .. n :
            /\ fl_calls[k].filter = self_filters[k]
            /\ fl_calls[k].arg = IF k = 1 THEN fl_line ELSE FilterLeft(k - 1).val
            /\ k < n => FilterLeft(k).tag = "line"
       /\ IF n > 0 /\ FilterLeft(n).tag = "none"
          THEN fl_handled = <<>>
          ELSE /\ n = Len(self_filters)
               /\ fl_handled = <<IF n = 0 THEN fl_line ELSE FilterLeft(n).val>>

\* A chain whose first filter raised: the two after it were called, the
\* second with the line unchanged, and the line was handled.
C24_Witness ==
  /\ fl_line = <<"x", "\n">>
  /\ self_filters = <<"broken", "mute", "tag">>
  /\ fl_calls[2].arg = fl_line
  /\ fl_handled = << <<">", "x", "\n">> >>

\* C18: when a read returned one line L of an authenticated client and the
\* client filter chain maps L to a line that does not begin with
\* COMMAND_PREFIX, no command ran, and a client subscribed to a connected
\* server had the filtered line, and nothing else, written to that server.
C18_FilteredLineIsUsed ==
  (/\ ev.step = "read" /\ ~read_eof
   /\ Len(handled) = 1 /\ handled[1].handler = "client"
   /\ ApplyFilters(ClientFilters, handled[1].line).tag = "line") =>
     LET ln == ApplyFilters(ClientFilters, handled[1].line).val
         s == StripTerminators(ln)
     IN (s # <<>> /\ s[1] # COMMAND_PREFIX) =>
          /\ start_calls = <<>>
          /\ (subscribedTo[cur] \in Servers /\ sv_connected[subscribedTo[cur]]) =>
               /\ sv_out[subscribedTo[cur]] = <<ln>>
               /\ cl_out[cur] = <<>>

\* The clients the registry holds.
RegisteredClients ==
  {s \in DOMAIN socket_wrappers : socket_wrappers[s].kind = "client"}

\* C20: in every state, a registered client occurs once in the subscribers
\* of the server its subscribedTo names and in the subscribers of no other
\* server, and the subscribers of a server are registered clients.
C20_OneSubscription ==
  \A v \in Servers :
    /\ \A c \in RegisteredClients :
         Occurrences(subscribers[v], c) = IF subscribedTo[c] = v THEN 1 ELSE 0
    /\ Range(subscribers[v]) \subseteq RegisteredClients

\* A client that joined server A, whose connection attempt it started, has
\* now joined server B and is a subscriber of B alone.
C20_Witness ==
  /\ ev.step = "read" /\ framed = <<ConnectBLine>>
  /\ RegisteredClients = {cur}
  /\ tasks["A"] # <<>>
  /\ subscribers = [v \in Servers |-> IF v = "B" THEN <<cur>> ELSE <<>>]
  /\ subscribedTo[cur] = "B"

(***************************************************************************)
(* Properties of the event loop.                                           *)
(***************************************************************************)
\* C11: no exception raised while a batch is processed leaves run(): the
\* loop is never ended by an error (with the lock still held by it).
C11_ErrorContained == loopPc # "crashed"

\* The warning RemoteServer.handle_disconnect sends to the subscribers.
ClosedWarning == <<MESSAGE_PREFIX_ERR, "Remote server closed connection.", "\r\n">>

\* C19: in the state that follows a read reporting closure, reached in one
\* step of the loop while it holds the lock, the stream is not registered
\* with the selector, is not a key of the map and is in none of the lists,
\* and its endpoint's handle_disconnect has run (a client is no subscriber
\* any more; a server has no socket, is not connected and has warned its
\* subscribers); and in every state a stream is a key of the map exactly
\* when it is in one of the lists.
C19_ClosureTearsDown ==
  /\ \A s \in Streams :
       s \in DOMAIN socket_wrappers <=>
         s \in Range(server_sockets) \cup Range(unauthenticated_sockets)
                 \cup Range(client_sockets)
  /\ (ev.step = "read" /\ read_eof) =>
       /\ LOCK = "loop"
       /\ cur \notin Tracked
       /\ \A v \in Servers : cur \notin Range(subscribers[v]) /\ sv_socket[v] # cur
       /\ ev.server \in Servers =>
            /\ sv_socket[ev.server] = None /\ ~sv_connected[ev.server]
            /\ \A c \in Range(subscribers[ev.server]) : ClosedWarning \in Range(cl_out[c])

\* A server's stream was closed and its subscriber warned.
C19_Witness ==
  /\ ev.step = "read" /\ read_eof /\ ev.server \in Servers
  /\ cur \notin Tracked
  /\ \E c \in Range(subscribers[ev.server]) : cl_out[c] = <<ClosedWarning>>

NotSubscribed == <<MESSAGE_PREFIX_ERR, "Not subscribedTo anything.", "\r\n">>

NotConnected == <<MESSAGE_PREFIX_ERR, "Remote server not connected.", "\r\n">>

\* C23: a step in which an authenticated client's read returns one line
\* that is no command has one of three outcomes.  A client subscribed to
\* nothing is written one error and no server is written to; a client
\* subscribed to a server that is not connected is written one error and no
\* server is written to; otherwise the line is written to the server
\* subscribed to, to no other server and to no client.
C23_PassthroughOutcomes ==
  [][(/\ ev'.step = "read" /\ ~read_eof'
      /\ cur' \in Range(client_sockets)
      /\ framed' = <<ChatLine>>) =>
       LET c == cur'
           v == subscribedTo[c]
       IN /\ \A d \in Streams \ {c} : cl_out'[d] = <<>>
          /\ CASE v = NoServer ->
                    /\ cl_out'[c] = <<NotSubscribed>>
                    /\ \A w \in Servers : sv_out'[w] = <<>>
               [] v # NoServer /\ ~sv_connected[v] ->
                    /\ cl_out'[c] = <<NotConnected>>
                    /\ \A w \in Servers : sv_out'[w] = <<>>
               [] OTHER ->
                    /\ cl_out'[c] = <<>>
                    /\ \A w \in Servers :
                         sv_out'[w] = IF w = v THEN <<ChatLine>> ELSE <<>>
    ]_vars

\* A client's line was written to the connected server it is subscribed to
\* and the client was written nothing.
C23_Witness ==
  /\ ev.step = "read" /\ ~read_eof /\ framed = <<ChatLine>>
  /\ cur \in Range(client_sockets)
  /\ subscribedTo[cur] \in Servers
  /\ sv_out[subscribedTo[cur]] = <<ChatLine>>
  /\ cl_out[cur] = <<>>

\* C22: when the last step closed a client's stream, the client is in no
\* server's subscribers and not among the authenticated clients; and no
\* step, of the loop or of a connector thread, writes to a client whose
\* stream is not tracked (it was closed).
C22_ClosedClientNotWritten ==
  /\ (ev.step = "read" /\ read_eof /\ ev.server = NoServer) =>
       /\ cur \notin Range(client_sockets)
       /\ \A v \in Servers : cur \notin Range(subscribers[v])
  /\ \A c \in Streams : cl_out[c] # <<>> => c \in DOMAIN socket_wrappers

IsWarning(text) == text[1] = MESSAGE_PREFIX_ERR

\* C21: a step in which a server's stream is closed leaves every server's
\* subscribers as they were and writes each subscriber of the closed server
\* one warning, the closure warning; no step of a connector thread that
\* connects, takes the lock, attaches or ends changes the subscribers; and a
\* read of lines from the (re)connected server writes the lines its filter
\* chain lets through to the subscribers it has then, which have not joined
\* again.
C21_SubscribersKeptOverClosure ==
  [][/\ (ev'.step = "read" /\ read_eof' /\ ev'.server \in Servers) =>
          /\ subscribers' = subscribers
          /\ \A c \in Range(subscribers[ev'.server]) :
               SelectSeq(cl_out'[c], IsWarning) = <<ClosedWarning>>
     /\ ev'.step \in {"connected", "locked", "attached", "ended"} =>
          subscribers' = subscribers
     /\ (ev'.step = "read" /\ ~read_eof' /\ ev'.server \in Servers) =>
          /\ subscribers' = subscribers
          /\ \A c \in Range(subscribers[ev'.server]) :
               SelectSeq(cl_out'[c], IsData) = Passing(ev'.server, HandledLines')
    ]_vars

\* The stream of server A was closed while both clients were subscribed to
\* it; both are still subscribed and each was written the warning.
C21_Witness ==
  /\ ev.step = "read" /\ read_eof /\ ev.server = "A"
  /\ Len(subscribers["A"]) = MaxClients
  /\ \A c \in Range(subscribers["A"]) : cl_out[c] = <<ClosedWarning>>

(***************************************************************************)
(* Properties of the connector threads.                                    *)
(***************************************************************************)
\* C9: a server without a connector thread is not marked connecting, and the
\* lock is held in a server's name only by its thread between acquire and
\* the finally clause; and, provided the lock is free again and again, a
\* server that has a connector thread reaches a state where it has none, is
\* not marked connecting and the lock is not held in its name; and a
\* start_connection call for a server that has no thread and is not
\* connected returns True.
C9_TaskEnds ==
  /\ [](\A v \in Servers :
         /\ tasks[v] = <<>> => ~connecting_in_thread[v]
         /\ LOCK = v =>
              \E i \in DOMAIN tasks[v] : tasks[v][i].pc \in {"attach", "finally"})
  /\ [][\A k \in DOMAIN start_calls' :
          (tasks[start_calls'[k].server] = <<>> /\ ~sv_connected[start_calls'[k].server])
            => start_calls'[k].ret]_vars
  /\ ([]<>(LOCK = "free")) =>
       \A v \in Servers :
         (tasks[v] # <<>>) ~>
           (tasks[v] = <<>> /\ ~connecting_in_thread[v] /\ LOCK # v)

\* C15 as claimed: in every state, no server is marked connecting and
\* connected at once.
C15_NeverBothFlags ==
  \A v \in Servers : ~(connecting_in_thread[v] /\ sv_connected[v])

\* C15 as amended: a server is marked connecting and connected at once only
\* while its connector thread holds the lock, has attached the socket and
\* has its finally clause still to run; in every state where that thread
\* does not hold the lock, at most one of the two flags is true.
C15_BothFlagsOnlyUnderLock ==
  \A v \in Servers :
    (connecting_in_thread[v] /\ sv_connected[v]) =>
      /\ LOCK = v
      /\ Len(tasks[v]) = 1 /\ tasks[v][1].pc = "finally"
      /\ sv_socket[v] # None

\* A connector thread has attached the socket and not yet cleared the flag.
C15_Witness ==
  \E v \in Servers :
    /\ ev = Event("attached", v, "")
    /\ connecting_in_thread[v] /\ sv_connected[v]
    /\ LOCK = v

\* C16: a step that changes the map, one of the three lists or a server's
\* connecting flag is taken by a thread that holds the lock: the event loop
\* when the step is an accept or a read, the connector thread of the step's
\* server otherwise.
C16_MutationsUnderLock ==
  [][(\/ socket_wrappers' # socket_wrappers
      \/ server_sockets' # server_sockets
      \/ unauthenticated_sockets' # unauthenticated_sockets
      \/ client_sockets' # client_sockets
      \/ connecting_in_thread' # connecting_in_thread) =>
       IF ev'.step \in {"accept", "read"} THEN LOCK = "loop"
       ELSE ev'.server \in Servers /\ LOCK = ev'.server]_vars

\* A thread has ended on the success path: the server is attached, the flag
\* is false and the lock is free.
C9_Witness ==
  /\ ev.step = "ended"
  /\ sv_connected[ev.server]
  /\ ~connecting_in_thread[ev.server]
  /\ tasks[ev.server] = <<>>
  /\ LOCK = "free"

\* C28: when run() has been ended by the stop command the loop does not
\* hold the lock, and from then on every connector thread there is comes to
\* its end: it takes the lock if its handshake succeeds, and its server is
\* not marked connecting afterwards.
C28_StopLeavesLockFree ==
  /\ [](loopPc = "stopped" => LOCK # "loop")
  /\ \A v \in Servers :
       (loopPc = "stopped" /\ tasks[v] # <<>>) ~>
         (tasks[v] = <<>> /\ ~connecting_in_thread[v])

\* C29: the statements of warn_all in an except clause of a connector
\* thread (reading the subscribers, writing to one of them) run only while
\* the lock is held in the name of the thread's server, and the write
\* raises no AssertionError of flush: the client written to has its socket.
C29_FailureHandlingUnderLock ==
  /\ ev.step \in {"for", "tell"} => LOCK = ev.server
  /\ ev.step = "tell" => ev.err = ""

(***************************************************************************)
(* Properties of authentication.                                           *)
(***************************************************************************)
\* C27: every subscriber of every server is an authenticated client that is
\* tracked, and no stream of the unauthenticated list is one; a step that
\* reads lines of a server writes nothing to an unauthenticated stream; in a
\* step that reads lines of a stream that was unauthenticated, each line up
\* to and including the first that is the credential is passed to
\* handle_line_auth and only the lines after it to handle_line_client; and
\* when the stream is still unauthenticated after the step, nothing was
\* written to a server, no connection was started and the subscribers are
\* as before.
C27_OnlyAuthenticatedTraffic ==
  /\ [](\A v \in Servers : \A c \in Range(subscribers[v]) :
         /\ c \in Range(client_sockets)
         /\ c \notin Range(unauthenticated_sockets)
         /\ c \in DOMAIN socket_wrappers)
  /\ []((ev.step = "read" /\ ev.server \in Servers) =>
         \A u \in Range(unauthenticated_sockets) : cl_out[u] = <<>>)
  /\ [][(/\ ev'.step = "read" /\ ~read_eof'
          /\ cur' \in Range(unauthenticated_sockets)) =>
           /\ Len(handled') <= Len(framed')
           /\ \A k \in DOMAIN handled' :
                /\ handled'[k].line = framed'[k]
                /\ handled'[k].handler =
                     IF \E j \in 1 .. (k - 1) : StripTerminators(framed'[j]) = PASSWORD
                     THEN "client" ELSE "auth"
           /\ cur' \in Range(unauthenticated_sockets') =>
                /\ \A w \in Servers : sv_out'[w] = <<>>
                /\ start_calls' = <<>>
                /\ subscribers' = subscribers
      ]_vars

\* An unauthenticated client sent the connect command while a server had a
\* subscriber: the line went to handle_line_auth only and the client is
\* still unauthenticated.
C27_Witness ==
  /\ ev.step = "read" /\ ~read_eof
  /\ cur \in Range(unauthenticated_sockets)
  /\ handled = <<[handler |-> "auth", line |-> ConnectALine]>>
  /\ \E v \in Servers : sv_connected[v] /\ subscribers[v] # <<>>

\* The reply to a line that is not the credential.
Incorrect == <<MESSAGE_PREFIX_ERR, "Incorrect.", "\r\n">>

\* C10: when a read (without closure) of an unauthenticated client returned
\* lines none of which verifies, the client was written "!! Incorrect." once
\* per line, nothing else was written and the registry, the servers and the
\* clients are as before; when a line of the read verifies, whatever came
\* before it, the client is authenticated after the step.
C10_WrongCredential ==
  [][(/\ ev'.step = "read" /\ ~read_eof'
      /\ cur' \in Range(unauthenticated_sockets)
      /\ framed' # <<>>) =>
       IF \E k \in DOMAIN framed' : Password_verify(StripTerminators(framed'[k]))
       THEN /\ cur' \in Range(client_sockets')
            /\ cur' \notin Range(unauthenticated_sockets')
            /\ \A k \in DOMAIN framed' :
                 (\A j \in 1 .. k : ~Password_verify(StripTerminators(framed'[j])))
                   => cl_out'[cur'][k] = Incorrect
       ELSE /\ cl_out' = [c \in Streams |->
                            IF c = cur' THEN [k \in DOMAIN framed' |-> Incorrect]
                            ELSE <<>>]
            /\ sv_out' = [v \in Servers |-> <<>>]
            /\ UNCHANGED <<socket_wrappers, server_sockets, unauthenticated_sockets,
                           client_sockets, sel, sv_socket, sv_connected,
                           connecting_in_thread, subscribers, cl_connected,
                           subscribedTo, tasks, LOCK>>]_vars

\* A client sent a wrong credential and then the right one: it got one
\* "!! Incorrect." and is authenticated.
C10_Witness ==
  /\ ev.step = "read"
  /\ framed = <<WrongLine, CredentialLine>>
  /\ cl_out[cur] = <<Incorrect>>
  /\ cur \in Range(client_sockets)

=============================================================================
